---------------------------- MODULE Spec2Model ----------------------------
(***************************************************************************)
(* PicoJuice (src/main.py): the serial command protocol engine of a Pico W *)
(* network co-processor.  The model starts where PicoJuice.__init__ waits  *)
(* for the host's first OK (line 44), with the Hardware object built, and  *)
(* follows the engine line by line: the startup handshake, the main loop   *)
(* of run(), dispatch in handle_command, every handler, and the SAVE       *)
(* transfer loop.                                                          *)
(*                                                                         *)
(* Text is modelled as it is in Python: a string is a sequence of one-     *)
(* character strings, so that strip, upper, startswith, find, split and    *)
(* join are computed rather than assumed.  The radio, the HTTP client, the *)
(* UDP socket and the flash file system are collaborators: each call's     *)
(* outcome (a result or a raised exception) is a nondeterministic choice.  *)
(***************************************************************************)
EXTENDS Integers, Sequences, FiniteSets, TLC

(***************************************************************************)
(* Python string primitives                                                *)
(***************************************************************************)

\* str.strip()/str.split(None) treat these as whitespace; "\r" and "\n" end
\* a line in read_line and so never occur inside one.
Whitespace ==
    {" ", "\t"}

\* A byte >= 0x80, which bytes.decode('ascii') rejects.
NonAscii ==
    {"0x80"}

LowerCase ==
    <<"a","b","c","d","e","f","g","h","i","j","k","l","m",
      "n","o","p","q","r","s","t","u","v","w","x","y","z">>

UpperCase ==
    <<"A","B","C","D","E","F","G","H","I","J","K","L","M",
      "N","O","P","Q","R","S","T","U","V","W","X","Y","Z">>

upper_char(c) ==
    IF \E i \in 1..Len(LowerCase) : LowerCase[i] = c
    THEN UpperCase[CHOOSE i \in 1..Len(LowerCase) : LowerCase[i] = c]
    ELSE c

upper(s) ==
    [i \in 1..Len(s) |-> upper_char(s[i])]

RECURSIVE lstrip(_)
lstrip(s) ==
    IF s # <<>> /\ Head(s) \in Whitespace THEN lstrip(Tail(s)) ELSE s

RECURSIVE rstrip(_)
rstrip(s) ==
    IF s # <<>> /\ s[Len(s)] \in Whitespace
    THEN rstrip(SubSeq(s, 1, Len(s) - 1))
    ELSE s

strip(s) ==
    rstrip(lstrip(s))

startswith(s, p) ==
    Len(s) >= Len(p) /\ SubSeq(s, 1, Len(p)) = p

endswith(s, p) ==
    Len(s) >= Len(p) /\ SubSeq(s, Len(s) - Len(p) + 1, Len(s)) = p

\* str.find: the lowest 0-based index of p in s, or -1.
find(s, p) ==
    LET at == {i \in 0..(Len(s) - Len(p)) : SubSeq(s, i + 1, i + Len(p)) = p}
    IN  IF at = {} THEN -1 ELSE CHOOSE i \in at : \A j \in at : i <= j

\* s[n:]
slice_from(s, n) ==
    SubSeq(s, n + 1, Len(s))

\* The length of the leading run of non-whitespace characters.
RECURSIVE word_len(_)
word_len(s) ==
    IF s = <<>> \/ Head(s) \in Whitespace THEN 0 ELSE 1 + word_len(Tail(s))

\* str.split(None, maxsplit): runs of whitespace separate the words; after
\* maxsplit splits the remainder, less its leading whitespace, is the last part.
RECURSIVE split(_, _)
split(s, maxsplit) ==
    LET t == lstrip(s)
        n == word_len(t)
    IN  IF t = <<>> THEN <<>>
        ELSE IF maxsplit = 0 THEN <<t>>
        ELSE <<SubSeq(t, 1, n)>> \o split(slice_from(t, n), maxsplit - 1)

\* sep.join(xs)
RECURSIVE join(_, _)
join(sep, xs) ==
    IF xs = <<>> THEN <<>>
    ELSE IF Len(xs) = 1 THEN xs[1]
    ELSE xs[1] \o sep \o join(sep, Tail(xs))

\* The lines a text file yields when iterated: each ends at its "\n"; a last
\* line without one is yielded too; an empty file yields none.  The "\n" is
\* left out here, handle_load strips it.
RECURSIVE file_lines(_)
file_lines(text) ==
    LET nl == find(text, <<"\n">>)
    IN  IF text = <<>> THEN <<>>
        ELSE IF nl = -1 THEN <<text>>
        ELSE <<SubSeq(text, 1, nl)>> \o file_lines(slice_from(text, nl + 1))

Digits ==
    <<"0","1","2","3","4","5","6","7","8","9">>

\* str(n) of a natural number.
RECURSIVE str_int(_)
str_int(n) ==
    IF n < 10 THEN <<Digits[n + 1]>>
    ELSE str_int(n \div 10) \o <<Digits[(n % 10) + 1]>>

HexDigits ==
    <<"0","1","2","3","4","5","6","7","8","9","a","b","c","d","e","f">>

\* f'{b:02x}' of a byte.
hex02(b) ==
    <<HexDigits[(b \div 16) + 1], HexDigits[(b % 16) + 1]>>

(***************************************************************************)
(* Literals of the source                                                  *)
(***************************************************************************)

VERSION ==
    <<"0",".","0",".","2">>

DEFAULT_CONTENT_TYPE ==
    <<"a","p","p","l","i","c","a","t","i","o","n","/","x","-","w","w","w",
      "-","f","o","r","m","-","u","r","l","e","n","c","o","d","e","d">>

OK ==
    <<"O","K">>

MJ ==
    <<"M","J">>

LIST ==
    <<"L","I","S","T">>

SIGIL ==
    <<"*","*">>

HTTP_PREFIX ==
    <<"h","t","t","p">>

SCHEME_HTTP ==
    <<"h","t","t","p",":","/","/">>

SCHEME_HTTPS ==
    <<"h","t","t","p","s",":","/","/">>

IJB ==
    <<".","I","J","B">>

START ==
    <<"S","T","A","R","T">>

END ==
    <<"E","N","D">>

V_VER ==
    <<"V","E","R">>

V_MAC ==
    <<"M","A","C">>

V_HELP ==
    <<"H","E","L","P">>

V_APL ==
    <<"A","P","L">>

V_APC ==
    <<"A","P","C">>

V_APD ==
    <<"A","P","D">>

V_APR ==
    <<"A","P","R">>

V_API ==
    <<"A","P","I">>

V_APS ==
    <<"A","P","S">>

V_APW ==
    <<"A","P","W">>

V_GET ==
    <<"G","E","T">>

V_GETS ==
    <<"G","E","T","S">>

V_POST ==
    <<"P","O","S","T">>

V_POSTS ==
    <<"P","O","S","T","S">>

V_PCT ==
    <<"P","C","T">>

V_UDP ==
    <<"U","D","P">>

V_SAVE ==
    <<"S","A","V","E">>

V_DIR ==
    <<"D","I","R">>

V_DEL ==
    <<"D","E","L">>

V_LOAD ==
    <<"L","O","A","D">>

V_BOOKMARK ==
    <<"B","O","O","K","M","A","R","K">>

V_BOOKMARKS ==
    <<"B","O","O","K","M","A","R","K","S">>

T_BannerHead ==
    <<"\n","'","P","I","C","O","J","U","I","C","E"," ">>

T_ConnectedTo ==
    <<"'","C","o","n","n","e","c","t","e","d"," ","t","o"," ">>

T_IP ==
    <<","," ","I","P",":"," ">>

T_KeysMustStart ==
    <<"'","B","o","o","k","m","a","r","k"," ","k","e","y","s"," ","m","u",
      "s","t"," ","s","t","a","r","t"," ","w","i","t","h"," ","*","*">>

T_BookmarkSaved ==
    <<"'","B","o","o","k","m","a","r","k"," ","s","a","v","e","d">>

T_NoBookmarks ==
    <<"'","N","o"," ","b","o","o","k","m","a","r","k","s"," ","f","o","u",
      "n","d">>

T_ConnectionFailed ==
    <<"'","C","o","n","n","e","c","t","i","o","n"," ","f","a","i","l","e",
      "d">>

T_Disconnected ==
    <<"'","D","i","s","c","o","n","n","e","c","t","e","d">>

T_WiFiReset ==
    <<"'","W","i","F","i"," ","R","e","s","e","t">>

T_ConnectedIP ==
    <<"'","C","o","n","n","e","c","t","e","d",","," ","I","P",":"," ">>

T_Netmask ==
    <<","," ","N","e","t","m","a","s","k",":"," ">>

T_Gateway ==
    <<","," ","G","a","t","e","w","a","y",":"," ">>

T_NotConnected ==
    <<"'","N","o","t"," ","c","o","n","n","e","c","t","e","d">>

T_HttpNotConnected ==
    <<"'","N","o","t"," ","C","o","n","n","e","c","t","e","d">>

T_Error ==
    <<"'","E","r","r","o","r",":"," ">>

T_ReadyForPost ==
    <<"'","R","e","a","d","y"," ","f","o","r"," ","P","O","S","T"," ","d",
      "a","t","a">>

T_NoPost ==
    <<"'","N","o"," ","P","O","S","T"," ","i","n"," ","p","r","o","g","r",
      "e","s","s">>

T_ContentTypeSet ==
    <<"'","C","o","n","t","e","n","t","-","T","y","p","e"," ","s","e","t">>

T_UDPSent ==
    <<"'","U","D","P"," ","s","e","n","t">>

T_FileSaved ==
    <<"'","F","i","l","e"," ","s","a","v","e","d">>

T_NoFiles ==
    <<"'","N","o"," ",".","I","J","B"," ","f","i","l","e","s"," ","f","o",
      "u","n","d">>

T_FileDeleted ==
    <<"'","F","i","l","e"," ","d","e","l","e","t","e","d">>

T_ErrorDeleting ==
    <<"'","E","r","r","o","r"," ","d","e","l","e","t","i","n","g"," ","f",
      "i","l","e">>

T_FileLoaded ==
    <<"'","F","i","l","e"," ","l","o","a","d","e","d">>

T_ErrorLoading ==
    <<"'","E","r","r","o","r"," ","l","o","a","d","i","n","g"," ","f","i",
      "l","e">>

T_VersionHead ==
    <<"'","P","I","C","O","J","U","I","C","E"," ","V","e","r","s","i","o",
      "n"," ">>

T_ApcMissing ==
    <<"E","r","r","o","r",":"," ","M","i","s","s","i","n","g"," ","p","a",
      "r","a","m","e","t","e","r","s">>

T_MissingURL ==
    <<"'","E","r","r","o","r",":"," ","M","i","s","s","i","n","g"," ","U",
      "R","L">>

T_InvalidPOST ==
    <<"'","I","n","v","a","l","i","d"," ","P","O","S","T"," ","c","o","m",
      "m","a","n","d">>

T_InvalidPOSTS ==
    <<"'","I","n","v","a","l","i","d"," ","P","O","S","T","S"," ","c","o",
      "m","m","a","n","d">>

T_MissingContentType ==
    <<"'","E","r","r","o","r",":"," ","M","i","s","s","i","n","g"," ","c",
      "o","n","t","e","n","t"," ","t","y","p","e">>

T_MissingParameters ==
    <<"'","E","r","r","o","r",":"," ","M","i","s","s","i","n","g"," ","p",
      "a","r","a","m","e","t","e","r","s">>

T_MissingFilename ==
    <<"'","E","r","r","o","r",":"," ","M","i","s","s","i","n","g"," ","f",
      "i","l","e","n","a","m","e">>

HelpLines ==
    << <<"'","P","I","C","O","J","U","I","C","E"," ","C","o","m","m","a","n","d","s",":">>,
       <<"'","H","E","L","P"," ","-"," ","S","h","o","w"," ","t","h","i","s"," ","h","e","l","p">>,
       <<"'","V","E","R"," ","-"," ","S","h","o","w"," ","f","i","r","m","w","a","r","e"," ","v","e","r","s","i","o","n">>,
       <<"'","A","P","L"," ","-"," ","L","i","s","t"," ","a","v","a","i","l","a","b","l","e"," ","W","i","F","i">>,
       <<"'","n","e","t","w","o","r","k","s">>,
       <<"'","A","P","C"," ","s","s","i","d"," ","p","a","s","s","w","o","r","d"," ","-">>,
       <<"'","C","o","n","n","e","c","t"," ","t","o"," ","W","i","F","i">>,
       <<"'","A","P","D"," ","-"," ","D","i","s","c","o","n","n","e","c","t"," ","f","r","o","m"," ","W","i","F","i">>,
       <<"'","A","P","I"," ","-"," ","S","h","o","w"," ","W","i","F","i"," ","n","e","t","w","o","r","k">>,
       <<"'","i","n","f","o">>,
       <<"'","A","P","S"," ","-"," ","S","h","o","w"," ","W","i","F","i"," ","c","o","n","n","e","c","t","i","o","n">>,
       <<"'","s","t","a","t","u","s"," ","(","0","/","1",")">>,
       <<"'","A","P","W"," ","-"," ","S","h","o","w"," ","W","i","F","i"," ","n","e","t","w","o","r","k">>,
       <<"'","n","a","m","e">>,
       <<"'","A","P","R"," ","-"," ","R","e","s","e","t"," ","W","i","F","i">>,
       <<"'","M","A","C"," ","-"," ","S","h","o","w"," ","W","i","F","i"," ","M","A","C">>,
       <<"'","a","d","d","r","e","s","s">>,
       <<"'","G","E","T","(","S",")"," ","u","r","l"," ","-"," ","H","T","T","P"," ","G","E","T","(","S",")">>,
       <<"'","P","O","S","T","(","S",")"," ","S","T","A","R","T"," ","u","r","l"," ","-"," ","S","t","a","r","t">>,
       <<"'","H","T","T","P"," ","P","O","S","T">>,
       <<"'","P","O","S","T","(","S",")"," ","E","N","D"," ","-"," ","E","n","d"," ","H","T","T","P">>,
       <<"'","P","O","S","T">>,
       <<"'","P","C","T"," ","t","y","p","e"," ","-"," ","S","e","t"," ","C","o","n","t","e","n","t","-","T","y","p","e">>,
       <<"'","U","D","P"," ","i","p"," ","p","o","r","t"," ","m","e","s","s","a","g","e"," ","-"," ","S","e","n","d">>,
       <<"'","U","D","P">>,
       <<"'","L","O","A","D"," ","f","i","l","e","n","a","m","e"," ","-"," ","L","o","a","d"," ",".","I","J","B">>,
       <<"'","f","i","l","e">>,
       <<"'","S","A","V","E"," ","f","i","l","e","n","a","m","e"," ","-"," ","S","a","v","e"," ","t","o">>,
       <<"'","f","i","l","e">>,
       <<"'","D","I","R"," ","-"," ","L","i","s","t"," ",".","I","J","B"," ","f","i","l","e","s">>,
       <<"'","D","E","L"," ","f","i","l","e","n","a","m","e"," ","-"," ","D","e","l","e","t","e"," ",".","I","J","B">>,
       <<"'","f","i","l","e">>,
       <<"'","B","O","O","K","M","A","R","K"," ","*","*","k","e","y"," ","u","r","l"," ","-"," ","S","a","v","e">>,
       <<"'","U","R","L"," ","b","o","o","k","m","a","r","k">>,
       <<"'","B","O","O","K","M","A","R","K","S"," ","-"," ","L","i","s","t"," ","a","l","l"," ","s","a","v","e","d">>,
       <<"'","U","R","L"," ","b","o","o","k","m","a","r","k","s">> >>

\* get_help_text
HelpText ==
    join(<<"\n">>, HelpLines)

\* The 22 keys of the handlers table.
Verbs ==
    {V_VER, V_MAC, V_HELP, V_APL, V_APC, V_APD, V_APR, V_API, V_APS, V_APW,
     V_GET, V_GETS, V_POST, V_POSTS, V_PCT, V_UDP, V_SAVE, V_DIR, V_DEL,
     V_LOAD, V_BOOKMARK, V_BOOKMARKS}

(***************************************************************************)
(* The host's vocabulary: the words its lines are made of                  *)
(***************************************************************************)

SP ==
    <<" ">>

\* Program names.
NameA ==
    <<"a">>

NameB ==
    <<"b">>

\* Bookmark keys: one with the sigil, one with half of it.
KeyK ==
    <<"*","*","k">>

KeyBad ==
    <<"*","k">>

\* URLs: one without a scheme, one that starts with "http".
UrlU ==
    <<"u">>

UrlH ==
    <<"h","t","t","p","v">>

\* Content types.
TypeC ==
    <<"c">>

TypeD ==
    <<"d">>

\* Network name and passphrase.
SsidS ==
    <<"s">>

PassP ==
    <<"p">>

\* UDP target, port and payload.
HostH ==
    <<"h">>

Port9 ==
    <<"9">>

MsgM ==
    <<"m">>

\* Verbs of no table entry.
VerbFoo ==
    <<"F","O","O">>

VerbVers ==
    <<"V","E","R","S">>

\* Program text lines.
TextA ==
    <<"A">>

\* What the HTTP client and the radio report.
BodyText ==
    <<"b","o","d","y">>

ErrText ==
    <<"E">>

IpAddr ==
    <<"1",".","2",".","3",".","4">>

NetMask ==
    <<"2","5","5",".","0",".","0",".","0">>

GateWay ==
    <<"1",".","2",".","3",".","1">>

OtherSsid ==
    <<"o">>

MacBytes ==
    <<222, 173, 190, 239, 0, 1>>

\* A command line as the host types it: the marker and the words, one space
\* between.
cmd_line(words) ==
    join(SP, <<MJ>> \o words)

\* Every verb on its own: a whole command for the verbs that take no
\* argument, one that lacks its arguments for the others.
BareCommands ==
    {<<v>> : v \in Verbs}

\* Lines that are no plainly typed command: empty, the acknowledgment, text,
\* a verb without the marker, the marker in lower case, with surrounding
\* blanks, glued to its verb, with nothing after it, after leading noise,
\* and lines holding a byte that is not ASCII.
OddLines ==
    { <<>>, OK, SP \o OK \o SP, <<"o","k">>, TextA, V_VER,
      <<"m","j"," ","v","e","r">>,
      <<"m","j"," ","p","c","t"," ","c">>,
      SP \o cmd_line(<<V_VER>>) \o SP,
      MJ \o V_VER,
      MJ, MJ \o SP,
      <<"x">> \o cmd_line(<<V_VER>>),
      <<">"," ">> \o cmd_line(<<V_PCT, TypeD>>),
      <<"0x80">>, cmd_line(<<V_VER>>) \o <<"0x80">> }

\* The lines that try the dispatcher: every verb bare, with too few and with
\* enough arguments, unknown verbs, and the odd lines.
DispatchLines ==
    {cmd_line(w) : w \in BareCommands \cup
        { <<V_APC, SsidS>>, <<V_APC, SsidS, PassP>>,
          <<V_GET, UrlU>>,
          <<V_POST, START>>, <<V_POST, START, UrlU>>, <<V_POST, END>>,
          <<V_POST, VerbFoo>>, <<V_POSTS, START>>, <<V_POSTS, VerbFoo>>,
          <<V_PCT, TypeC>>,
          <<V_UDP, HostH, Port9>>, <<V_UDP, HostH, Port9, MsgM>>,
          <<V_DEL, NameB>>, <<V_LOAD, NameB>>,
          <<V_BOOKMARK, KeyK>>, <<V_BOOKMARK, KeyK, UrlU>>,
          <<V_BOOKMARK, KeyBad, UrlU>>,
          <<VerbFoo>>, <<VerbFoo, UrlU, UrlU>>, <<VerbVers>> }}
    \cup OddLines

\* The lines of a session on the network: bookmarks, content types, GET and
\* POST, with a SAVE and the lines that reach no handler.
WebLines ==
    {cmd_line(w) : w \in
        { <<V_APC, SsidS, PassP>>, <<V_APD>>,
          <<V_GET, UrlU>>, <<V_GET, UrlH>>, <<V_GET, KeyK>>,
          <<V_GETS, UrlU>>,
          <<V_POST, START, UrlU>>, <<V_POSTS, START, KeyK>>, <<V_POST, END>>,
          <<V_PCT, TypeC>>, <<V_PCT, TypeD>>,
          <<V_BOOKMARK, KeyK, UrlU>>, <<V_BOOKMARK, KeyK, UrlH>>,
          <<V_BOOKMARK, KeyBad, UrlU>>,
          <<V_BOOKMARKS>>,
          <<V_SAVE, NameA>>, <<VerbFoo>> }}
    \cup { <<>>, OK, MJ, <<"0x80">> }

\* The lines of the program-store commands, with the lines that reach no
\* handler.
FileLines ==
    {cmd_line(w) : w \in
        { <<V_SAVE>>, <<V_SAVE, NameA>>,
          <<V_DEL>>, <<V_DEL, NameA>>, <<V_DEL, NameB>>,
          <<V_LOAD>>, <<V_LOAD, NameA>>, <<V_LOAD, NameB>>,
          <<V_DIR>>, <<VerbFoo>> }}
    \cup { <<>>, OK, TextA, MJ, <<"0x80">> }

\* What the host may send while a SAVE collects.
AllSaveLines ==
    { <<>>, OK, SP \o OK \o SP, TextA, cmd_line(<<V_DEL, NameB>>), <<"0x80">> }

\* The same without the command line.
FewSaveLines ==
    { <<>>, OK, TextA, <<"0x80">> }

\* Every line of the host.
AllLines ==
    DispatchLines \cup WebLines \cup FileLines \cup AllSaveLines

(***************************************************************************)
(* Reading a line and recognising a command                                *)
(***************************************************************************)

\* uart.read(1).decode('ascii') succeeds on every byte of the line.
is_ascii(raw) ==
    \A i \in 1..Len(raw) : raw[i] \notin NonAscii

\* read_line: the characters before the terminator, stripped.
read_line(raw) ==
    strip(raw)

\* run: the test that makes a line a command.
is_command(line) ==
    line # <<>> /\ startswith(upper(line), MJ)

\* run: the command handed to handle_command.
command_body(line) ==
    slice_from(line, find(upper(line), MJ) + 2)

\* handle_command: parts.
split_command(cmd) ==
    split(strip(cmd), 2)

\* What the engine makes of one raw line.  cmd and parts are empty and
\* command is the empty string for a line that is not dispatched.
parse(raw) ==
    LET line == read_line(raw)
        isc == is_ascii(raw) /\ is_command(line)
        cmd == IF isc THEN command_body(line) ELSE <<>>
        parts == IF isc THEN split_command(cmd) ELSE <<>>
    IN  [ ascii |-> is_ascii(raw),
          line |-> line,
          is_cmd |-> isc,
          cmd |-> cmd,
          parts |-> parts,
          command |-> IF parts = <<>> THEN <<>> ELSE upper(parts[1]) ]

\* parse, tabulated over the host's lines (@@ makes the table explicit).
Parsed ==
    [raw \in AllLines |-> parse(raw)] @@ <<>>

\* The lines that reach the handler of each verb.
ByVerb ==
    [v \in Verbs |-> {raw \in AllLines : Parsed[raw].command = v}]

\* The lines read_line raises on, and the lines it returns.
Undecodable ==
    {raw \in AllLines : ~Parsed[raw].ascii}

Decodable ==
    {raw \in AllLines : Parsed[raw].ascii}

\* The lines run hands to handle_command.
Commands ==
    {raw \in AllLines : Parsed[raw].is_cmd}

(***************************************************************************)
(* State                                                                   *)
(***************************************************************************)

VARIABLES
    pc,              \* "init": __init__ waits for OK; "run": the loop of run;
                     \* "save": the loop of handle_save; "halted": an
                     \* exception left main
    exc,             \* the exception that halted the engine, "" if none
    state,           \* self.state
    bookmarks,       \* self.bookmarks
    bookmarks_json,  \* the file bookmarks.json
    wifi_json,       \* the file wifi.json
    ijb,             \* the .IJB files of os.listdir(), name -> content
    isconnected,     \* hw.wlan.isconnected()
    wlan_ssid,       \* hw.wlan.config('ssid')
    filename,        \* handle_save: filename
    collected,       \* handle_save: collected
    first_ok,        \* handle_save: first_ok
    out,             \* the texts the last step passed to send_response
    net,             \* the calls the last step made to urequests and socket
    rx,              \* the raw line the last step read
    dispatched,      \* the last step's call of handle_command: its argument
                     \* in a 0/1 sequence
    first_sent,      \* history: the first text ever sent, in a 0/1 sequence
    xfer,            \* history: the non-empty lines read since the last SAVE
    last_pct,        \* history: the argument of the last answered PCT
    last_bm,         \* history: key -> URL of the last BOOKMARK answered
                     \* with "saved", over what bookmarks.json held at start
    saved            \* history: file name -> the lines collected by the
                     \* last SAVE answered 'File saved, until a DEL deletes it

vars ==
    <<pc, exc, state, bookmarks, bookmarks_json, wifi_json, ijb, isconnected,
      wlan_ssid, filename, collected, first_ok, out, net, rx, dispatched,
      first_sent, xfer, last_pct, last_bm, saved>>

\* The most lines a SAVE transfer is followed for.
MaxXfer ==
    4

\* A dict with no key.
EmptyDict ==
    [k \in {} |-> <<>>]

\* self.state as __init__ sets it.
InitialState ==
    [ post_data |-> <<>>,
      is_posting |-> FALSE,
      is_secure_post |-> FALSE,
      post_url |-> <<>>,
      content_type |-> DEFAULT_CONTENT_TYPE ]

\* A JSON file that cannot be opened or parsed.
NoJson ==
    [ok |-> FALSE, data |-> EmptyDict]

\* wifi.json as save_wifi_credentials writes it.
wifi_file(s, p) ==
    [ok |-> TRUE, data |-> ("ssid" :> s @@ "password" :> p)]

\* bookmarks.json as handle_bookmark writes it.
bookmarks_file(d) ==
    [ok |-> TRUE, data |-> d]

\* f"{filename}.IJB"
ijb_name(name) ==
    name \o IJB

\* What the flash holds when the engine starts.
InitialBookmarkFiles ==
    {NoJson, bookmarks_file(KeyK :> UrlU)}

InitialWifiFiles ==
    {NoJson, wifi_file(SsidS, PassP)}

InitialPrograms ==
    {EmptyDict, ijb_name(NameB) :> TextA}

Init ==
    /\ pc = "init"
    /\ exc = ""
    /\ state = InitialState
    /\ bookmarks = EmptyDict
    /\ bookmarks_json \in InitialBookmarkFiles
    /\ wifi_json \in InitialWifiFiles
    /\ ijb \in InitialPrograms
    /\ isconnected = FALSE
    /\ wlan_ssid = <<>>
    /\ filename = <<>>
    /\ collected = <<>>
    /\ first_ok = TRUE
    /\ out = <<>>
    /\ net = <<>>
    /\ rx = <<>>
    /\ dispatched = <<>>
    /\ first_sent = <<>>
    /\ xfer = <<>>
    /\ last_pct = <<>>
    /\ last_bm = IF bookmarks_json.ok THEN bookmarks_json.data ELSE EmptyDict
    /\ saved = EmptyDict

(***************************************************************************)
(* Collaborators                                                           *)
(***************************************************************************)

\* open(name, 'w') and the write that follows: both succeed, open raises
\* (the file is as it was), or the write raises after open truncated the
\* file.
WriteOutcomes ==
    {"ok", "open_fails", "write_fails"}

\* urequests.get/post: a body, an empty body, or an exception.
HttpReplies ==
    { [ok |-> TRUE, text |-> BodyText],
      [ok |-> TRUE, text |-> <<>>],
      [ok |-> FALSE, text |-> ErrText] }

\* wlan.scan(): the names found.
ScanResults ==
    { <<>>, <<SsidS, OtherSsid>> }

(***************************************************************************)
(* Helpers of the handlers                                                 *)
(***************************************************************************)

\* load_bookmarks that reads nothing.
load_bookmarks_nothing(file) ==
    [k \in {} |-> <<>>]

\* load_bookmarks: the dict of bookmarks.json, or {} when open or json.load
\* raises.
load_bookmarks(file) ==
    IF file.ok THEN file.data ELSE EmptyDict

\* dict.get(key, default)
dict_get(d, key, default) ==
    IF key \in DOMAIN d THEN d[key] ELSE default

\* d[key] = value
dict_set(d, key, value) ==
    [k \in DOMAIN d \cup {key} |-> IF k = key THEN value ELSE d[k]]

\* dict_del that empties the dict.
dict_del_all(d, key) ==
    [k \in {} |-> <<>>]

\* The dict without key.
dict_del(d, key) ==
    [k \in DOMAIN d \ {key} |-> d[k]]

\* resolve_bookmark with get's default left out: a key with no mapping
\* resolves to None.
resolve_bookmark_no_default(url_or_key) ==
    IF startswith(url_or_key, SIGIL)
    THEN dict_get(bookmarks, url_or_key, <<>>)
    ELSE url_or_key

\* resolve_bookmark
resolve_bookmark(url_or_key) ==
    IF startswith(url_or_key, SIGIL)
    THEN dict_get(bookmarks, url_or_key, url_or_key)
    ELSE url_or_key

\* A file after open(.., 'w') and a write of new content with the outcome w.
written(old, new, empty, w) ==
    CASE w = "ok" -> new
      [] w = "open_fails" -> old
      [] w = "write_fails" -> empty

\* wifi_connect and save_wifi_credentials: joined says whether isconnected()
\* turns true within WIFI_TIMEOUT polls, w is the outcome of writing
\* wifi.json.  ip is the address returned, empty for None; raised says that
\* save_wifi_credentials raised.
wifi_connect(s, p, joined, w) ==
    IF joined
    THEN [ ip |-> IF w = "ok" THEN IpAddr ELSE <<>>,
           raised |-> w # "ok",
           isconnected |-> TRUE,
           wlan_ssid |-> s,
           wifi_json |-> written(wifi_json, wifi_file(s, p), NoJson, w) ]
    ELSE [ ip |-> <<>>,
           raised |-> FALSE,
           isconnected |-> FALSE,
           wlan_ssid |-> wlan_ssid,
           wifi_json |-> wifi_json ]

\* The outcomes of wifi_connect: without a join nothing is written.
ConnectOutcomes ==
    {<<FALSE, "ok">>} \cup {<<TRUE, w>> : w \in WriteOutcomes}

\* handle_http without the test of the association.
handle_http_unchecked(url, secure, method, data, reply) ==
    LET r == IF startswith(url, SIGIL)
             THEN dict_get(bookmarks, url, url) ELSE url
        resolved_url ==
            IF startswith(r, HTTP_PREFIX) THEN r
            ELSE (IF secure THEN SCHEME_HTTPS ELSE SCHEME_HTTP) \o r
        call ==
            IF method = "GET"
            THEN [ fn |-> "urequests.get", url |-> resolved_url,
                   data |-> <<>>, content_type |-> <<>> ]
            ELSE [ fn |-> "urequests.post", url |-> resolved_url,
                   data |-> data, content_type |-> state.content_type ]
    IN  [ text |-> IF reply.ok THEN reply.text ELSE T_Error \o reply.text,
          calls |-> <<call>> ]

\* handle_http: the text returned and the client calls made, given the
\* client's reply.
handle_http(url, secure, method, data, reply) ==
    IF ~isconnected
    THEN [text |-> T_HttpNotConnected, calls |-> <<>>]
    ELSE LET r == resolve_bookmark(url)
             resolved_url ==
                 IF startswith(r, HTTP_PREFIX) THEN r
                 ELSE (IF secure THEN SCHEME_HTTPS ELSE SCHEME_HTTP) \o r
             call ==
                 IF method = "GET"
                 THEN [ fn |-> "urequests.get", url |-> resolved_url,
                        data |-> <<>>, content_type |-> <<>> ]
                 ELSE [ fn |-> "urequests.post", url |-> resolved_url,
                        data |-> data,
                        content_type |-> state.content_type ]
         IN  [ text |-> IF reply.ok THEN reply.text
                        ELSE T_Error \o reply.text,
               calls |-> <<call>> ]

\* get_mac_address
get_mac_address(mac) ==
    <<"'">> \o join(<<>>, [i \in 1..Len(mac) |-> hex02(mac[i])])

\* handle_apl: one line per network found, the associated one starred.
handle_apl(found) ==
    join(<<"\n">>,
         [i \in 1..Len(found) |->
            <<"'">> \o (IF isconnected /\ found[i] = wlan_ssid
                        THEN <<"*">> ELSE <<>>) \o found[i]])

\* os.listdir(): the .IJB files and the JSON files that hold data.
listdir ==
    DOMAIN ijb
    \cup (IF bookmarks_json.ok
          THEN {<<"b","o","o","k","m","a","r","k","s",".","j","s","o","n">>}
          ELSE {})
    \cup (IF wifi_json.ok
          THEN {<<"w","i","f","i",".","j","s","o","n">>}
          ELSE {})

\* handle_dir giving the number of lines of a file for its size.
handle_dir_line_count(listing) ==
    LET files == SelectSeq(listing, LAMBDA f : endswith(f, IJB))
    IN  IF files = <<>> THEN T_NoFiles
        ELSE join(<<"\n">>,
                  [i \in 1..Len(files) |->
                     <<"'">> \o files[i] \o SP
                             \o str_int(Len(file_lines(ijb[files[i]])))])

\* handle_dir: one line per name of the listing that ends in .IJB, in the
\* order os.listdir() gives, with the size os.stat gives.
handle_dir(listing) ==
    LET files == SelectSeq(listing, LAMBDA f : endswith(f, IJB))
    IN  IF files = <<>> THEN T_NoFiles
        ELSE join(<<"\n">>,
                  [i \in 1..Len(files) |->
                     <<"'">> \o files[i] \o SP
                             \o str_int(Len(ijb[files[i]]))])

\* Every order a set of names may be listed in.
Orders(names) ==
    {s \in [1..Cardinality(names) -> names] :
        \A i, j \in 1..Cardinality(names) : i # j => s[i] # s[j]}

\* handle_list_bookmarks: one line per bookmark, in the order the dict
\* iterates.
handle_list_bookmarks(keys) ==
    IF keys = <<>> THEN T_NoBookmarks
    ELSE join(<<"\n">>,
              [i \in 1..Len(keys) |->
                 <<"'">> \o keys[i] \o <<":"," ">> \o bookmarks[keys[i]]])

\* load_lines sending the file in one piece.
load_lines_whole(text) ==
    IF text = <<>> THEN <<>> ELSE <<strip(text)>>

\* handle_load: the stripped lines of the file, each sent on its own.
load_lines(text) ==
    LET ls == file_lines(text)
    IN  [i \in 1..Len(ls) |-> strip(ls[i])]

(***************************************************************************)
(* Steps: what every step records, and how a step ends                     *)
(***************************************************************************)

\* The history variables, from the line read and what the step sent.
observe(raw) ==
    LET p == Parsed[raw]
    IN  /\ rx' = raw
        /\ dispatched' = IF pc = "run" /\ p.is_cmd
                         THEN <<p.cmd>> ELSE <<>>
        /\ first_sent' = IF first_sent = <<>> /\ out' # <<>>
                         THEN <<out'[1]>> ELSE first_sent
        /\ xfer' = IF pc = "save"
                   THEN (IF p.ascii /\ p.line # <<>>
                         THEN Append(xfer, p.line) ELSE xfer)
                   ELSE <<>>
        /\ last_pct' = IF /\ pc = "run"
                          /\ p.command = V_PCT
                          /\ Len(p.parts) >= 2
                          /\ out' = <<T_ContentTypeSet>>
                       THEN p.parts[2] ELSE last_pct
        /\ last_bm' = IF /\ pc = "run"
                         /\ p.command = V_BOOKMARK
                         /\ Len(p.parts) >= 3
                         /\ out' = <<T_BookmarkSaved>>
                      THEN dict_set(last_bm, p.parts[2], p.parts[3])
                      ELSE last_bm
        /\ saved' = IF pc = "save" /\ out' = <<T_FileSaved>>
                    THEN (filename \o IJB) :> collected
                         @@ [k \in DOMAIN saved \ {filename \o IJB} |-> saved[k]]
                    ELSE IF /\ pc = "run"
                            /\ p.command = V_DEL
                            /\ out' = <<T_FileDeleted>>
                    THEN [k \in DOMAIN saved \ {p.parts[2] \o IJB} |-> saved[k]]
                    ELSE saved

\* run: handle_command returned response after the handler sent the texts
\* of sent itself; a response that is None or empty is not sent.
returns(raw, sent, response) ==
    /\ pc' = "run"
    /\ exc' = exc
    /\ out' = sent \o (IF response = <<>> THEN <<>> ELSE <<response>>)
    /\ observe(raw)

\* An exception nothing catches ends main.
raises(raw, e) ==
    /\ pc' = "halted"
    /\ exc' = e
    /\ out' = <<>>
    /\ observe(raw)

\* What a step that only answers leaves alone.
session_unchanged ==
    UNCHANGED <<state, bookmarks>>

storage_unchanged ==
    UNCHANGED <<bookmarks_json, wifi_json, ijb>>

radio_unchanged ==
    UNCHANGED <<isconnected, wlan_ssid>>

save_unchanged ==
    UNCHANGED <<filename, collected, first_ok>>

nothing_changes ==
    /\ session_unchanged
    /\ storage_unchanged
    /\ radio_unchanged
    /\ save_unchanged
    /\ net' = <<>>

(***************************************************************************)
(* __init__: the startup handshake                                         *)
(***************************************************************************)

\* is_ack without regard to case.
is_ack_nocase(line) ==
    upper(line) = OK

\* __init__: the test that ends the wait.
is_ack(line) ==
    line = OK

\* A line that is not OK is dropped and the loop reads on.
init_discard(L) ==
    /\ pc = "init"
    /\ \E raw \in L :
         /\ Parsed[raw].ascii
         /\ ~is_ack(Parsed[raw].line)
         /\ nothing_changes
         /\ pc' = "init"
         /\ exc' = exc
         /\ out' = <<>>
         /\ observe(raw)

\* read_line raises on a byte that is not ASCII.
init_decode_error(L) ==
    /\ pc = "init"
    /\ \E raw \in Undecodable \cap L :
         /\ ~Parsed[raw].ascii
         /\ nothing_changes
         /\ raises(raw, "UnicodeError")

\* OK: the banner, the session state, the bookmarks, and the connection to
\* the network of wifi.json if there is one; whatever that raises is dropped.
init_ok(L) ==
    /\ pc = "init"
    /\ \E raw \in L :
         /\ Parsed[raw].ascii
         /\ is_ack(Parsed[raw].line)
         /\ state' = InitialState
         /\ bookmarks' = load_bookmarks(bookmarks_json)
         /\ UNCHANGED <<bookmarks_json, ijb>>
         /\ save_unchanged
         /\ net' = <<>>
         /\ IF wifi_json.ok
            THEN \E o \in ConnectOutcomes :
                   LET c == wifi_connect(wifi_json.data["ssid"],
                                         wifi_json.data["password"],
                                         o[1], o[2])
                   IN  /\ isconnected' = c.isconnected
                       /\ wlan_ssid' = c.wlan_ssid
                       /\ wifi_json' = c.wifi_json
                       /\ returns(raw, <<T_BannerHead \o VERSION>>,
                                  IF c.ip # <<>>
                                  THEN T_ConnectedTo
                                       \o wifi_json.data["ssid"]
                                       \o T_IP \o c.ip
                                  ELSE <<>>)
            ELSE /\ radio_unchanged
                 /\ UNCHANGED wifi_json
                 /\ returns(raw, <<T_BannerHead \o VERSION>>, <<>>)

(***************************************************************************)
(* run and handle_command: lines that reach no handler                     *)
(***************************************************************************)

\* read_line raises on a byte that is not ASCII.
run_decode_error(L) ==
    /\ pc = "run"
    /\ \E raw \in Undecodable \cap L :
         /\ ~Parsed[raw].ascii
         /\ nothing_changes
         /\ raises(raw, "UnicodeError")

\* A line that is empty or does not start with the marker is dropped.
run_ignore(L) ==
    /\ pc = "run"
    /\ \E raw \in L :
         /\ Parsed[raw].ascii
         /\ ~Parsed[raw].is_cmd
         /\ nothing_changes
         /\ returns(raw, <<>>, <<>>)

\* handle_command: parts[0] of a command with no word raises IndexError.
command_empty(L) ==
    /\ pc = "run"
    /\ \E raw \in Commands \cap L :
         /\ Parsed[raw].is_cmd
         /\ Parsed[raw].parts = <<>>
         /\ nothing_changes
         /\ raises(raw, "IndexError")

\* command_unknown answering the unknown verb with an error text.
command_unknown_error(L) ==
    /\ pc = "run"
    /\ \E raw \in Commands \cap L :
         /\ Parsed[raw].parts # <<>>
         /\ Parsed[raw].command \notin Verbs
         /\ nothing_changes
         /\ returns(raw, <<>>, T_Error \o Parsed[raw].command)

\* handle_command: a verb that is no key of handlers returns None.
command_unknown(L) ==
    /\ pc = "run"
    /\ \E raw \in Commands \cap L :
         /\ Parsed[raw].is_cmd
         /\ Parsed[raw].parts # <<>>
         /\ Parsed[raw].command \notin Verbs
         /\ nothing_changes
         /\ returns(raw, <<>>, <<>>)

(***************************************************************************)
(* handle_command: one step per key of handlers                            *)
(***************************************************************************)

cmd_VER(L) ==
    /\ pc = "run"
    /\ \E raw \in ByVerb[V_VER] \cap L :
         /\ Parsed[raw].command = V_VER
         /\ nothing_changes
         /\ returns(raw, <<>>, T_VersionHead \o VERSION)

cmd_MAC(L) ==
    /\ pc = "run"
    /\ \E raw \in ByVerb[V_MAC] \cap L :
         /\ Parsed[raw].command = V_MAC
         /\ nothing_changes
         /\ returns(raw, <<>>, get_mac_address(MacBytes))

cmd_HELP(L) ==
    /\ pc = "run"
    /\ \E raw \in ByVerb[V_HELP] \cap L :
         /\ Parsed[raw].command = V_HELP
         /\ nothing_changes
         /\ returns(raw, <<>>, HelpText)

cmd_APL(L) ==
    /\ pc = "run"
    /\ \E raw \in ByVerb[V_APL] \cap L, found \in ScanResults :
         /\ Parsed[raw].command = V_APL
         /\ nothing_changes
         /\ returns(raw, <<>>, handle_apl(found))

\* handle_apc: an exception of save_wifi_credentials is not caught.
cmd_APC(L) ==
    /\ pc = "run"
    /\ \E raw \in ByVerb[V_APC] \cap L :
         LET parts == Parsed[raw].parts
         IN  /\ Parsed[raw].command = V_APC
             /\ session_unchanged
             /\ UNCHANGED <<bookmarks_json, ijb>>
             /\ save_unchanged
             /\ net' = <<>>
             /\ IF Len(parts) >= 3
                THEN \E o \in ConnectOutcomes :
                       LET c == wifi_connect(parts[2], parts[3], o[1], o[2])
                       IN  /\ isconnected' = c.isconnected
                           /\ wlan_ssid' = c.wlan_ssid
                           /\ wifi_json' = c.wifi_json
                           /\ IF c.raised
                              THEN raises(raw, "OSError")
                              ELSE returns(raw, <<>>,
                                     IF c.ip # <<>>
                                     THEN T_ConnectedTo \o parts[2]
                                          \o T_IP \o c.ip
                                     ELSE T_ConnectionFailed)
                ELSE /\ radio_unchanged
                     /\ UNCHANGED wifi_json
                     /\ returns(raw, <<>>, T_ApcMissing)

cmd_APD(L) ==
    /\ pc = "run"
    /\ \E raw \in ByVerb[V_APD] \cap L :
         /\ Parsed[raw].command = V_APD
         /\ isconnected' = FALSE
         /\ UNCHANGED wlan_ssid
         /\ session_unchanged
         /\ storage_unchanged
         /\ save_unchanged
         /\ net' = <<>>
         /\ returns(raw, <<>>, T_Disconnected)

cmd_APR(L) ==
    /\ pc = "run"
    /\ \E raw \in ByVerb[V_APR] \cap L :
         /\ Parsed[raw].command = V_APR
         /\ isconnected' = FALSE
         /\ UNCHANGED wlan_ssid
         /\ session_unchanged
         /\ storage_unchanged
         /\ save_unchanged
         /\ net' = <<>>
         /\ returns(raw, <<>>, T_WiFiReset)

cmd_API(L) ==
    /\ pc = "run"
    /\ \E raw \in ByVerb[V_API] \cap L :
         /\ Parsed[raw].command = V_API
         /\ nothing_changes
         /\ returns(raw, <<>>,
                    IF isconnected
                    THEN T_ConnectedIP \o IpAddr \o T_Netmask \o NetMask
                         \o T_Gateway \o GateWay
                    ELSE T_NotConnected)

cmd_APS(L) ==
    /\ pc = "run"
    /\ \E raw \in ByVerb[V_APS] \cap L :
         /\ Parsed[raw].command = V_APS
         /\ nothing_changes
         /\ returns(raw, <<>>, IF isconnected THEN <<"1">> ELSE <<"0">>)

cmd_APW(L) ==
    /\ pc = "run"
    /\ \E raw \in ByVerb[V_APW] \cap L :
         /\ Parsed[raw].command = V_APW
         /\ nothing_changes
         /\ returns(raw, <<>>,
                    IF isconnected THEN <<"'">> \o wlan_ssid
                    ELSE T_NotConnected)

\* GET and GETS: handle_http(parts[1]) and handle_http(parts[1], secure=True).
cmd_GET(L) ==
    /\ pc = "run"
    /\ \E raw \in (ByVerb[V_GET] \cup ByVerb[V_GETS]) \cap L, reply \in HttpReplies :
         LET parts == Parsed[raw].parts
             h == handle_http(parts[2], Parsed[raw].command = V_GETS,
                              "GET", <<>>, reply)
         IN  /\ Parsed[raw].command \in {V_GET, V_GETS}
             /\ session_unchanged
             /\ storage_unchanged
             /\ radio_unchanged
             /\ save_unchanged
             /\ IF Len(parts) >= 2
                THEN /\ net' = h.calls
                     /\ returns(raw, <<>>, h.text)
                ELSE /\ net' = <<>>
                     /\ returns(raw, <<>>, T_MissingURL)

\* handle_post_start resetting the content type with the rest of the
\* session.
handle_post_start_reset(url, secure) ==
    [state EXCEPT !.is_posting = TRUE,
                  !.is_secure_post = secure,
                  !.post_url = url,
                  !.post_data = <<>>,
                  !.content_type = DEFAULT_CONTENT_TYPE]

\* handle_post_start that leaves a session already open as it is.
handle_post_start_keep(url, secure) ==
    IF state.is_posting THEN state
    ELSE [state EXCEPT !.is_posting = TRUE,
                       !.is_secure_post = secure,
                       !.post_url = url,
                       !.post_data = <<>>]

\* handle_post_start
handle_post_start(url, secure) ==
    [state EXCEPT !.is_posting = TRUE,
                  !.is_secure_post = secure,
                  !.post_url = url,
                  !.post_data = <<>>]

\* POST and POSTS.  parts[1] of a bare POST and parts[2] of a START without
\* URL raise IndexError.
cmd_POST(L) ==
    /\ pc = "run"
    /\ \E raw \in (ByVerb[V_POST] \cup ByVerb[V_POSTS]) \cap L, reply \in HttpReplies :
         LET parts == Parsed[raw].parts
             secure == Parsed[raw].command = V_POSTS
             h == handle_http(state.post_url, state.is_secure_post, "POST",
                              state.post_data, reply)
         IN  /\ Parsed[raw].command \in {V_POST, V_POSTS}
             /\ UNCHANGED bookmarks
             /\ storage_unchanged
             /\ radio_unchanged
             /\ save_unchanged
             /\ IF Len(parts) < 2
                THEN /\ UNCHANGED state
                     /\ net' = <<>>
                     /\ raises(raw, "IndexError")
                ELSE IF parts[2] = START
                THEN IF Len(parts) < 3
                     THEN /\ UNCHANGED state
                          /\ net' = <<>>
                          /\ raises(raw, "IndexError")
                     ELSE /\ state' = handle_post_start(parts[3], secure)
                          /\ net' = <<>>
                          /\ returns(raw, <<>>, T_ReadyForPost)
                ELSE IF parts[2] = END
                THEN IF ~state.is_posting
                     THEN /\ UNCHANGED state
                          /\ net' = <<>>
                          /\ returns(raw, <<>>, T_NoPost)
                     ELSE /\ state' = [state EXCEPT !.is_posting = FALSE,
                                                    !.post_data = <<>>]
                          /\ net' = h.calls
                          /\ returns(raw, <<>>, h.text)
                ELSE /\ UNCHANGED state
                     /\ net' = <<>>
                     /\ returns(raw, <<>>,
                                IF secure THEN T_InvalidPOSTS
                                ELSE T_InvalidPOST)

\* handle_pct
handle_pct(content_type) ==
    [state EXCEPT !.content_type = content_type]

cmd_PCT(L) ==
    /\ pc = "run"
    /\ \E raw \in ByVerb[V_PCT] \cap L :
         LET parts == Parsed[raw].parts
         IN  /\ Parsed[raw].command = V_PCT
             /\ UNCHANGED bookmarks
             /\ storage_unchanged
             /\ radio_unchanged
             /\ save_unchanged
             /\ net' = <<>>
             /\ IF Len(parts) >= 2
                THEN /\ state' = handle_pct(parts[2])
                     /\ returns(raw, <<>>, T_ContentTypeSet)
                ELSE /\ UNCHANGED state
                     /\ returns(raw, <<>>, T_MissingContentType)

\* socket.sendto: sent, or an exception.
UdpOutcomes ==
    {"ok", "raises"}

\* handle_udp: the text returned and the datagram sent.
handle_udp(ip, port, message, o) ==
    IF o = "ok"
    THEN [ text |-> T_UDPSent,
           calls |-> <<[ fn |-> "socket.sendto", url |-> ip \o <<":">> \o port,
                         data |-> message, content_type |-> <<>> ]>> ]
    ELSE [text |-> T_Error \o ErrText, calls |-> <<>>]

\* UDP: parts has at most three entries, so parts[3] is never there.
cmd_UDP(L) ==
    /\ pc = "run"
    /\ \E raw \in ByVerb[V_UDP] \cap L, o \in UdpOutcomes :
         LET parts == Parsed[raw].parts
         IN  /\ Parsed[raw].command = V_UDP
             /\ session_unchanged
             /\ storage_unchanged
             /\ radio_unchanged
             /\ save_unchanged
             /\ IF Len(parts) >= 4
                THEN LET u == handle_udp(parts[2], parts[3], parts[4], o)
                     IN  /\ net' = u.calls
                         /\ returns(raw, <<>>, u.text)
                ELSE /\ net' = <<>>
                     /\ returns(raw, <<>>, T_MissingParameters)

\* SAVE: handle_save sends LIST and enters its loop.
cmd_SAVE(L) ==
    /\ pc = "run"
    /\ \E raw \in ByVerb[V_SAVE] \cap L :
         LET parts == Parsed[raw].parts
         IN  /\ Parsed[raw].command = V_SAVE
             /\ session_unchanged
             /\ storage_unchanged
             /\ radio_unchanged
             /\ net' = <<>>
             /\ IF Len(parts) >= 2
                THEN /\ filename' = parts[2]
                     /\ collected' = <<>>
                     /\ first_ok' = TRUE
                     /\ pc' = "save"
                     /\ exc' = exc
                     /\ out' = <<LIST>>
                     /\ observe(raw)
                ELSE /\ save_unchanged
                     /\ returns(raw, <<>>, T_MissingFilename)

\* The loop of handle_save reads on for as long as the transfer is followed.
save_reads ==
    pc = "save" /\ Len(xfer) < MaxXfer

save_loops(raw) ==
    /\ pc' = "save"
    /\ exc' = exc
    /\ out' = <<>>
    /\ observe(raw)

\* handle_save: read_line raises on a byte that is not ASCII.
save_decode_error(SL) ==
    /\ save_reads
    /\ \E raw \in Undecodable \cap SL :
         /\ ~Parsed[raw].ascii
         /\ nothing_changes
         /\ raises(raw, "UnicodeError")

\* handle_save: an empty line is neither OK nor collected.
save_blank(SL) ==
    /\ save_reads
    /\ \E raw \in SL :
         /\ Parsed[raw].ascii
         /\ Parsed[raw].line = <<>>
         /\ nothing_changes
         /\ save_loops(raw)

\* save_collect that carries out a DEL command it reads instead of
\* collecting the line.
save_collect_runs_del(SL) ==
    /\ save_reads
    /\ \E raw \in SL :
         LET p == Parsed[raw]
             del == p.is_cmd /\ p.command = V_DEL /\ Len(p.parts) >= 2
         IN  /\ p.ascii
             /\ p.line # OK
             /\ p.line # <<>>
             /\ collected' = IF del THEN collected
                             ELSE Append(collected, p.line)
             /\ ijb' = IF del
                       THEN [k \in DOMAIN ijb \ {p.parts[2] \o IJB} |-> ijb[k]]
                       ELSE ijb
             /\ UNCHANGED <<filename, first_ok>>
             /\ session_unchanged
             /\ UNCHANGED <<bookmarks_json, wifi_json>>
             /\ radio_unchanged
             /\ net' = <<>>
             /\ save_loops(raw)

\* handle_save: a line that is not OK is collected.
save_collect(SL) ==
    /\ save_reads
    /\ \E raw \in SL :
         /\ Parsed[raw].ascii
         /\ Parsed[raw].line # OK
         /\ Parsed[raw].line # <<>>
         /\ collected' = Append(collected, Parsed[raw].line)
         /\ UNCHANGED <<filename, first_ok>>
         /\ session_unchanged
         /\ storage_unchanged
         /\ radio_unchanged
         /\ net' = <<>>
         /\ save_loops(raw)

\* save_first_ok that takes the first OK for the end of the transfer.
save_first_ok_ends(SL) ==
    /\ save_reads
    /\ \E raw \in SL :
         /\ Parsed[raw].ascii
         /\ Parsed[raw].line = OK
         /\ first_ok
         /\ ijb' = dict_set(ijb, ijb_name(filename), join(<<"\n">>, collected))
         /\ filename' = <<>>
         /\ collected' = <<>>
         /\ first_ok' = TRUE
         /\ session_unchanged
         /\ UNCHANGED <<bookmarks_json, wifi_json>>
         /\ radio_unchanged
         /\ net' = <<>>
         /\ returns(raw, <<>>, T_FileSaved)

\* handle_save: the first OK.
save_first_ok(SL) ==
    /\ save_reads
    /\ \E raw \in SL :
         /\ Parsed[raw].ascii
         /\ Parsed[raw].line = OK
         /\ first_ok
         /\ first_ok' = FALSE
         /\ UNCHANGED <<filename, collected>>
         /\ session_unchanged
         /\ storage_unchanged
         /\ radio_unchanged
         /\ net' = <<>>
         /\ save_loops(raw)

\* save_content with the line ending of the serial link for separator.
save_content_crlf(lines) ==
    join(<<"\r","\n">>, lines)

\* The content handle_save writes.
save_content(lines) ==
    join(<<"\n">>, lines)

\* handle_save: the second OK writes the file and returns; an exception of
\* open or write is not caught.
save_second_ok(SL) ==
    /\ save_reads
    /\ \E raw \in SL, w \in WriteOutcomes :
         LET name == ijb_name(filename)
         IN  /\ Parsed[raw].ascii
             /\ Parsed[raw].line = OK
             /\ ~first_ok
             /\ ijb' = CASE w = "ok" ->
                              dict_set(ijb, name, save_content(collected))
                         [] w = "open_fails" -> ijb
                         [] w = "write_fails" -> dict_set(ijb, name, <<>>)
             /\ filename' = <<>>
             /\ collected' = <<>>
             /\ first_ok' = TRUE
             /\ session_unchanged
             /\ UNCHANGED <<bookmarks_json, wifi_json>>
             /\ radio_unchanged
             /\ net' = <<>>
             /\ IF w = "ok"
                THEN returns(raw, <<>>, T_FileSaved)
                ELSE raises(raw, "OSError")

cmd_DIR(L) ==
    /\ pc = "run"
    /\ \E raw \in ByVerb[V_DIR] \cap L, listing \in Orders(listdir) :
         /\ Parsed[raw].command = V_DIR
         /\ nothing_changes
         /\ returns(raw, <<>>, handle_dir(listing))

\* DEL: os.remove raises when the file is not there.
cmd_DEL(L) ==
    /\ pc = "run"
    /\ \E raw \in ByVerb[V_DEL] \cap L :
         LET parts == Parsed[raw].parts
         IN  /\ Parsed[raw].command = V_DEL
             /\ session_unchanged
             /\ UNCHANGED <<bookmarks_json, wifi_json>>
             /\ radio_unchanged
             /\ save_unchanged
             /\ net' = <<>>
             /\ IF Len(parts) < 2
                THEN /\ UNCHANGED ijb
                     /\ returns(raw, <<>>, T_MissingFilename)
                ELSE IF ijb_name(parts[2]) \in DOMAIN ijb
                THEN /\ ijb' = dict_del(ijb, ijb_name(parts[2]))
                     /\ returns(raw, <<>>, T_FileDeleted)
                ELSE /\ UNCHANGED ijb
                     /\ returns(raw, <<>>, T_ErrorDeleting)

\* LOAD: open raises when the file is not there.
cmd_LOAD(L) ==
    /\ pc = "run"
    /\ \E raw \in ByVerb[V_LOAD] \cap L :
         LET parts == Parsed[raw].parts
         IN  /\ Parsed[raw].command = V_LOAD
             /\ nothing_changes
             /\ IF Len(parts) < 2
                THEN returns(raw, <<>>, T_MissingFilename)
                ELSE IF ijb_name(parts[2]) \in DOMAIN ijb
                THEN returns(raw, load_lines(ijb[ijb_name(parts[2])]),
                             T_FileLoaded)
                ELSE returns(raw, <<>>, T_ErrorLoading)

\* valid_key content with one star.
valid_key_one_star(key) ==
    startswith(key, <<"*">>)

\* handle_bookmark: the test of the key.
valid_key(key) ==
    startswith(key, SIGIL)

\* handle_bookmark: the key is entered, bookmarks.json rewritten and read
\* back; an exception of open or json.dump is not caught.
cmd_BOOKMARK(L) ==
    /\ pc = "run"
    /\ \E raw \in ByVerb[V_BOOKMARK] \cap L, w \in WriteOutcomes :
         LET parts == Parsed[raw].parts
             entered == dict_set(bookmarks, parts[2], parts[3])
             file == written(bookmarks_json, bookmarks_file(entered),
                             NoJson, w)
         IN  /\ Parsed[raw].command = V_BOOKMARK
             /\ UNCHANGED <<state, wifi_json, ijb>>
             /\ radio_unchanged
             /\ save_unchanged
             /\ net' = <<>>
             /\ IF Len(parts) < 3
                THEN /\ UNCHANGED <<bookmarks, bookmarks_json>>
                     /\ returns(raw, <<>>, T_MissingParameters)
                ELSE IF ~valid_key(parts[2])
                THEN /\ UNCHANGED <<bookmarks, bookmarks_json>>
                     /\ returns(raw, <<>>, T_KeysMustStart)
                ELSE /\ bookmarks_json' = file
                     /\ IF w = "ok"
                        THEN /\ bookmarks' = load_bookmarks(file)
                             /\ returns(raw, <<>>, T_BookmarkSaved)
                        ELSE /\ bookmarks' = entered
                             /\ raises(raw, "OSError")

cmd_BOOKMARKS(L) ==
    /\ pc = "run"
    /\ \E raw \in ByVerb[V_BOOKMARKS] \cap L, keys \in Orders(DOMAIN bookmarks) :
         /\ Parsed[raw].command = V_BOOKMARKS
         /\ nothing_changes
         /\ returns(raw, <<>>, handle_list_bookmarks(keys))

(***************************************************************************)
(* Specifications                                                          *)
(***************************************************************************)

\* The startup handshake.
Startup(L) ==
    \/ init_discard(L)
    \/ init_decode_error(L)
    \/ init_ok(L)

\* The lines of the main loop that reach no handler.
Loop(L) ==
    \/ run_decode_error(L)
    \/ run_ignore(L)
    \/ command_empty(L)
    \/ command_unknown(L)

\* The loop of handle_save.
Transfer(SL) ==
    \/ save_decode_error(SL)
    \/ save_blank(SL)
    \/ save_collect(SL)
    \/ save_first_ok(SL)
    \/ save_second_ok(SL)

\* The dispatcher under every verb; no SAVE has its filename, so the
\* transfer loop is never entered.
Next ==
    \/ Startup(DispatchLines)
    \/ Loop(DispatchLines)
    \/ cmd_VER(DispatchLines)
    \/ cmd_MAC(DispatchLines)
    \/ cmd_HELP(DispatchLines)
    \/ cmd_APL(DispatchLines)
    \/ cmd_APC(DispatchLines)
    \/ cmd_APD(DispatchLines)
    \/ cmd_APR(DispatchLines)
    \/ cmd_API(DispatchLines)
    \/ cmd_APS(DispatchLines)
    \/ cmd_APW(DispatchLines)
    \/ cmd_GET(DispatchLines)
    \/ cmd_POST(DispatchLines)
    \/ cmd_PCT(DispatchLines)
    \/ cmd_UDP(DispatchLines)
    \/ cmd_SAVE(DispatchLines)
    \/ cmd_DIR(DispatchLines)
    \/ cmd_DEL(DispatchLines)
    \/ cmd_LOAD(DispatchLines)
    \/ cmd_BOOKMARK(DispatchLines)
    \/ cmd_BOOKMARKS(DispatchLines)

Spec ==
    Init /\ [][Next]_vars

\* A session on the network.
NextWeb ==
    \/ Startup(WebLines)
    \/ Loop(WebLines)
    \/ cmd_APC(WebLines)
    \/ cmd_APD(WebLines)
    \/ cmd_GET(WebLines)
    \/ cmd_POST(WebLines)
    \/ cmd_PCT(WebLines)
    \/ cmd_BOOKMARK(WebLines)
    \/ cmd_BOOKMARKS(WebLines)
    \/ cmd_SAVE(WebLines)
    \/ Transfer(FewSaveLines)

\* The session starts with no stored program.
InitWeb ==
    Init /\ ijb = EmptyDict

SpecWeb ==
    InitWeb /\ [][NextWeb]_vars

\* The program store.
NextFiles ==
    \/ Startup(FileLines)
    \/ Loop(FileLines)
    \/ cmd_SAVE(FileLines)
    \/ Transfer(AllSaveLines)
    \/ cmd_DIR(FileLines)
    \/ cmd_DEL(FileLines)
    \/ cmd_LOAD(FileLines)

SpecFiles ==
    Init /\ [][NextFiles]_vars

(***************************************************************************)
(* Claims                                                                  *)
(***************************************************************************)

\* A transfer of the form OK, l1..ln, OK: its first and last line are OK and
\* no line between is.
TwoSentinelForm(x) ==
    /\ Len(x) >= 2
    /\ x[1] = OK
    /\ x[Len(x)] = OK
    /\ \A i \in 2..(Len(x) - 1) : x[i] # OK

\* The lines l1..ln of such a transfer.
Between(x) ==
    SubSeq(x, 2, Len(x) - 1)

\* C1: SAVE two-sentinel protocol.  A dispatched SAVE <name> starts a
\* transfer for that name.  The OK that is the first line of the transfer
\* does not end it and writes nothing; neither does a line that is not OK.
\* When the lines received are OK, l1..ln, OK (n >= 0, no li empty or OK) the
\* transfer ends at the last of them, and, the write not raising, the
\* program <name> holds l1..ln joined by newline (nothing when n = 0), the
\* other programs are as they were, and the one text sent is 'File saved.
C1_SaveTwoSentinel ==
    [][ /\ (pc = "run" /\ pc' = "save")
            => /\ filename' = Parsed[rx'].parts[2]
               /\ xfer' = <<>>
        /\ (pc = "save" /\ xfer = <<>> /\ xfer' = <<OK>>)
            => /\ pc' = "save"
               /\ out' = <<>>
               /\ UNCHANGED <<ijb, filename>>
        /\ (pc = "save" /\ xfer' # xfer /\ xfer'[Len(xfer')] # OK)
            => /\ pc' = "save"
               /\ out' = <<>>
               /\ UNCHANGED <<ijb, filename>>
        /\ (pc = "save" /\ xfer' # xfer /\ TwoSentinelForm(xfer'))
            => /\ pc' \in {"run", "halted"}
               /\ pc' = "run"
                  => /\ ijb' = dict_set(ijb, ijb_name(filename),
                                        join(<<"\n">>, Between(xfer')))
                     /\ out' = <<T_FileSaved>>
      ]_vars

\* C1 witness: SAVE a has ended on OK, A, MJ DEL b, OK and a.IJB holds the
\* two lines.
C1_Witness ==
    /\ pc = "run"
    /\ xfer = <<OK, TextA, cmd_line(<<V_DEL, NameB>>), OK>>
    /\ out = <<T_FileSaved>>
    /\ ijb_name(NameA) \in DOMAIN ijb
    /\ ijb[ijb_name(NameA)] = TextA \o <<"\n">> \o cmd_line(<<V_DEL, NameB>>)

\* The banner __init__ sends.
Banner ==
    T_BannerHead \o VERSION

\* What the engine holds besides the bookkeeping of the last step.
engine ==
    <<state, bookmarks, bookmarks_json, wifi_json, ijb, isconnected,
      wlan_ssid, filename, collected, first_ok>>

\* C2: startup handshake.  While the engine waits for the first OK nothing
\* has been sent; a line read there that is not exactly OK, a command line
\* included, is dropped: nothing is sent, nothing is dispatched, no state
\* changes and the wait goes on (or ends in the decode error of a byte that
\* is not ASCII); the wait ends only on a line that is exactly OK, and the
\* first text ever sent is the banner.
C2_Handshake ==
    /\ [](pc = "init" => first_sent = <<>>)
    /\ [](first_sent # <<>> => first_sent[1] = Banner)
    /\ [][ pc = "init" =>
             IF Parsed[rx'].ascii /\ Parsed[rx'].line = OK
             THEN /\ pc' = "run"
                  /\ out' # <<>>
                  /\ out'[1] = Banner
                  /\ dispatched' = <<>>
             ELSE /\ pc' \in {"init", "halted"}
                  /\ pc' = "halted" => ~Parsed[rx'].ascii
                  /\ out' = <<>>
                  /\ net' = <<>>
                  /\ dispatched' = <<>>
                  /\ UNCHANGED engine
       ]_vars

\* C2 witness: the wait has just ended on OK and the banner is the first
\* text sent.
C2_Witness ==
    /\ pc = "run"
    /\ Parsed[rx].line = OK
    /\ first_sent = <<Banner>>
    /\ out[1] = Banner

\* C3: a command whose verb is no key of the command table gets no response
\* (nothing is sent, no error text), makes no collaborator call, and leaves
\* the session state, the bookmarks, the stored programs and everything
\* else the engine holds unchanged; the loop goes on.
C3_UnknownVerbSilent ==
    [][ ( /\ pc = "run"
          /\ dispatched' # <<>>
          /\ Parsed[rx'].parts # <<>>
          /\ Parsed[rx'].command \notin Verbs )
        => /\ out' = <<>>
           /\ net' = <<>>
           /\ pc' = "run"
           /\ UNCHANGED engine
      ]_vars

\* C3 witness: FOO u u was read in a session that holds a bookmark, a
\* content type that is not the default and an open POST, and nothing was
\* sent.
C3_Witness ==
    /\ pc = "run"
    /\ rx = cmd_line(<<VerbFoo, UrlU, UrlU>>)
    /\ out = <<>>
    /\ state.content_type = TypeC
    /\ state.is_posting
    /\ KeyK \in DOMAIN bookmarks

\* The marker as the specification reads it: anywhere in the line, the
\* command being what follows its first occurrence.
marker_anywhere(raw) ==
    LET line == strip(raw)
        at == find(upper(line), MJ)
    IN  [has |-> at >= 0, body |-> IF at >= 0 THEN slice_from(line, at + 2) ELSE <<>>]

MarkerAnywhere ==
    [raw \in AllLines |-> marker_anywhere(raw)] @@ <<>>

\* C4: command recognition.  A line read by the main loop is handed to
\* handle_command if and only if it holds the marker MJ, in either case,
\* anywhere, and what is handed over is what follows the marker's first
\* occurrence.
C4_MarkerAnywhere ==
    [][ (pc = "run" /\ Parsed[rx'].ascii)
        => dispatched' = IF MarkerAnywhere[rx'].has
                         THEN <<MarkerAnywhere[rx'].body>> ELSE <<>>
      ]_vars

\* The least number of words after the verb that the command catalogue
\* gives the verbs that take arguments.
MinArgs ==
    (V_APC :> 2) @@ (V_GET :> 1) @@ (V_GETS :> 1) @@ (V_UDP :> 3)
    @@ (V_SAVE :> 1) @@ (V_LOAD :> 1) @@ (V_DEL :> 1) @@ (V_BOOKMARK :> 2)
    @@ (V_PCT :> 1) @@ (V_POST :> 1) @@ (V_POSTS :> 1)

\* The words after the verb, however many.
ExtraWords ==
    [raw \in AllLines |->
        LET words == split(strip(Parsed[raw].cmd), -1)
        IN  IF words = <<>> THEN 0 ELSE Len(words) - 1] @@ <<>>

\* The texts that report missing parameters.
MissingTexts ==
    {T_ApcMissing, T_MissingURL, T_MissingContentType, T_MissingParameters,
     T_MissingFilename}

\* C5: arity validation.  A command of a verb of the table with fewer words
\* after the verb than the verb's minimum is answered with a
\* missing-parameters text, calls no collaborator and changes nothing the
\* engine holds.
C5_ArityValidation ==
    [][ ( /\ pc = "run"
          /\ dispatched' # <<>>
          /\ Parsed[rx'].command \in DOMAIN MinArgs
          /\ ExtraWords[rx'] < MinArgs[Parsed[rx'].command] )
        => /\ pc' = "run"
           /\ out' \in {<<t>> : t \in MissingTexts}
           /\ net' = <<>>
           /\ UNCHANGED engine
      ]_vars

\* C6: no command halts the engine: it ends only on the decode error of a
\* byte that is not ASCII, the one exception of the transport framing and of
\* the startup.
C6_NoCommandHalts ==
    pc = "halted" => exc = "UnicodeError"

\* C7: a BOOKMARK command with a key and a URL whose key does not start
\* with ** is answered with the rejection text, and neither the bookmark
\* table nor bookmarks.json changes.
C7_BookmarkRejected ==
    [][ ( /\ pc = "run"
          /\ dispatched' # <<>>
          /\ Parsed[rx'].command = V_BOOKMARK
          /\ Len(Parsed[rx'].parts) >= 3
          /\ ~startswith(Parsed[rx'].parts[2], SIGIL) )
        => /\ pc' = "run"
           /\ out' = <<T_KeysMustStart>>
           /\ UNCHANGED <<bookmarks, bookmarks_json>>
      ]_vars

\* C7 witness: BOOKMARK *k u was rejected in a session whose bookmarks.json
\* holds **k.
C7_Witness ==
    /\ pc = "run"
    /\ rx = cmd_line(<<V_BOOKMARK, KeyBad, UrlU>>)
    /\ out = <<T_KeysMustStart>>
    /\ bookmarks_json.ok
    /\ KeyK \in DOMAIN bookmarks_json.data
    /\ KeyBad \notin DOMAIN bookmarks

\* The arguments resolution is tried on: the key the host bookmarks, a key
\* never bookmarked, a key with half the sigil, and two URLs.
ResolveArgs ==
    {KeyK, <<"*","*","j">>, KeyBad, UrlU, UrlH}

\* What an argument resolves to by the commands answered so far.
resolves_to(arg) ==
    IF startswith(arg, SIGIL) /\ arg \in DOMAIN last_bm
    THEN last_bm[arg] ELSE arg

\* C8: bookmark round trip.  In a running session a key with the sigil
\* resolves to the URL of the last BOOKMARK of that key answered with
\* 'Bookmark saved (or that bookmarks.json held at startup), a key with the
\* sigil and no mapping resolves to itself, an argument without the sigil
\* resolves to itself; and the URL a GET requests ends with what its
\* argument resolves to.
C8_BookmarkRoundTrip ==
    /\ pc \in {"run", "save"}
       => \A arg \in ResolveArgs : resolve_bookmark(arg) = resolves_to(arg)
    /\ (pc = "run" /\ net # <<>> /\ net[1].fn = "urequests.get")
       => endswith(net[1].url, resolves_to(Parsed[rx].parts[2]))

\* C8 witness: GET **k has requested the URL of the last BOOKMARK **k.
C8_Witness ==
    /\ pc = "run"
    /\ rx = cmd_line(<<V_GET, KeyK>>)
    /\ net # <<>>
    /\ net[1].url = UrlH
    /\ KeyK \in DOMAIN last_bm
    /\ last_bm[KeyK] = UrlH

\* The content type by the commands answered so far.
ExpectedType ==
    IF last_pct = <<>> THEN DEFAULT_CONTENT_TYPE ELSE last_pct

\* C9: content-type persistence.  The session content type is the argument
\* of the last PCT answered with 'Content-Type set, or the default if there
\* was none, whatever other commands came between; and every POST
\* submission carries it.
C9_ContentTypePersists ==
    /\ state.content_type = ExpectedType
    /\ \A i \in 1..Len(net) :
          net[i].fn = "urequests.post" => net[i].content_type = ExpectedType

\* C9 witness: a POST was submitted with the content type d of the last
\* PCT.
C9_Witness ==
    /\ pc = "run"
    /\ net # <<>>
    /\ net[1].fn = "urequests.post"
    /\ net[1].content_type = TypeD
    /\ last_pct = TypeD

\* C10: a GET or GETS with a URL argument, read while the radio is not
\* associated, is answered with 'Not Connected and calls no HTTP client.
C10_GetNotConnected ==
    [][ ( /\ pc = "run"
          /\ dispatched' # <<>>
          /\ Parsed[rx'].command \in {V_GET, V_GETS}
          /\ Len(Parsed[rx'].parts) >= 2
          /\ ~isconnected )
        => /\ pc' = "run"
           /\ out' = <<T_HttpNotConnected>>
           /\ net' = <<>>
      ]_vars

\* C10 witness: GET **k, a key with no mapping, was answered 'Not
\* Connected without a call.
C10_Witness ==
    /\ pc = "run"
    /\ rx = cmd_line(<<V_GET, KeyK>>)
    /\ KeyK \notin DOMAIN bookmarks
    /\ ~isconnected
    /\ out = <<T_HttpNotConnected>>
    /\ net = <<>>

\* C11: DEL of a name that is not stored is answered 'Error deleting file
\* and leaves the stored programs, names and contents, as they were; DEL of
\* a stored name is answered 'File deleted and the stored programs are
\* afterwards those of before without that one, each with its content.
C11_DelFrame ==
    [][ ( /\ pc = "run"
          /\ dispatched' # <<>>
          /\ Parsed[rx'].command = V_DEL
          /\ Len(Parsed[rx'].parts) >= 2 )
        => LET name == Parsed[rx'].parts[2] \o IJB
           IN  /\ pc' = "run"
               /\ IF name \in DOMAIN ijb
                  THEN /\ out' = <<T_FileDeleted>>
                       /\ DOMAIN ijb' = DOMAIN ijb \ {name}
                       /\ \A k \in DOMAIN ijb' : ijb'[k] = ijb[k]
                  ELSE /\ out' = <<T_ErrorDeleting>>
                       /\ ijb' = ijb
      ]_vars

\* C11 witness: DEL a removed a.IJB and b.IJB is stored as before.
C11_Witness ==
    /\ pc = "run"
    /\ rx = cmd_line(<<V_DEL, NameA>>)
    /\ out = <<T_FileDeleted>>
    /\ DOMAIN ijb = {NameB \o IJB}
    /\ ijb[NameB \o IJB] = TextA

\* C11 witness of the other case: DEL a answered 'Error deleting file while
\* b.IJB is stored.
C11_WitnessAbsent ==
    /\ pc = "run"
    /\ rx = cmd_line(<<V_DEL, NameA>>)
    /\ out = <<T_ErrorDeleting>>
    /\ DOMAIN ijb = {NameB \o IJB}

\* The line DIR gives a stored program: the marker, the file name, a blank
\* and the number of bytes of the content.
dir_entry(k) ==
    <<"'">> \o k \o SP \o str_int(Len(ijb[k]))

\* C12: the stored programs change only at the second OK of a SAVE and at a
\* DEL answered 'File deleted; and a DIR is answered, the store unchanged,
\* with 'No .IJB files found when no program is stored and otherwise with
\* one line per stored program, giving its name and the byte size of its
\* content, and no other line.
C12_DirListsStore ==
    [][ /\ ijb' # ijb
           => \/ /\ pc = "save"
                 /\ ~first_ok
                 /\ Parsed[rx'].line = OK
              \/ /\ pc = "run"
                 /\ Parsed[rx'].command = V_DEL
                 /\ out' = <<T_FileDeleted>>
        /\ ( /\ pc = "run"
             /\ dispatched' # <<>>
             /\ Parsed[rx'].command = V_DIR )
           => /\ pc' = "run"
              /\ ijb' = ijb
              /\ Len(out') = 1
              /\ IF DOMAIN ijb = {}
                 THEN out'[1] = T_NoFiles
                 ELSE LET lines == file_lines(out'[1])
                      IN  /\ Len(lines) = Cardinality(DOMAIN ijb)
                          /\ {lines[i] : i \in 1..Len(lines)}
                                = {dir_entry(k) : k \in DOMAIN ijb}
      ]_vars

\* C12 witness: with bookmarks.json on the flash, DIR listed b.IJB of one
\* byte and a.IJB, saved as two lines, of three bytes.
C12_Witness ==
    /\ pc = "run"
    /\ rx = cmd_line(<<V_DIR>>)
    /\ bookmarks_json.ok
    /\ DOMAIN ijb = {NameA \o IJB, NameB \o IJB}
    /\ ijb[NameA \o IJB] = TextA \o <<"\n">> \o TextA
    /\ out = << <<"'">> \o NameB \o IJB \o <<" ","1","\n","'">>
                       \o NameA \o IJB \o <<" ","3">> >>

\* C13: a UDP command with host, port and payload sends one datagram with
\* that payload to that host and port and is answered 'UDP sent, or, the
\* socket raising, sends none and is answered with the error text.
C13_UdpSends ==
    [][ ( /\ pc = "run"
          /\ dispatched' # <<>>
          /\ Parsed[rx'].command = V_UDP
          /\ ExtraWords[rx'] >= 3 )
        => LET words == split(strip(Parsed[rx'].cmd), -1)
           IN  \/ /\ out' = <<T_UDPSent>>
                  /\ Len(net') = 1
                  /\ net'[1].fn = "socket.sendto"
                  /\ net'[1].url = words[2] \o <<":">> \o words[3]
                  /\ net'[1].data = words[4]
               \/ /\ out' = <<T_Error \o ErrText>>
                  /\ net' = <<>>
      ]_vars

\* C14: response convention.  Every line of every text the engine itself
\* makes in answer to a command of the table begins with the marker
\* character '.  (The body of an HTTP reply, the lines LOAD replays and the
\* LIST prompt of SAVE are not the engine's status lines and are left out.)
C14_LeadingMarker ==
    [][ ( /\ pc = "run"
          /\ dispatched' # <<>>
          /\ Parsed[rx'].command \in Verbs \ {V_LOAD}
          /\ pc' = "run"
          /\ net' = <<>> )
        => \A i \in 1..Len(out') :
              LET lines == file_lines(out'[i])
              IN  \A j \in 1..Len(lines) :
                     lines[j] # <<>> => lines[j][1] = "'"
      ]_vars

\* The POST session: whether one is open, its URL, its TLS flag, its body.
post_session ==
    <<state.is_posting, state.post_url, state.is_secure_post,
      state.post_data>>

\* The URL a submission of the open session goes to: what the session's URL
\* resolves to, with the scheme of the TLS flag put before it unless it
\* starts with http.
submission_url ==
    LET r == resolves_to(state.post_url)
    IN  IF startswith(r, HTTP_PREFIX) THEN r
        ELSE IF state.is_secure_post THEN <<"h","t","t","p","s",":","/","/">> \o r
        ELSE <<"h","t","t","p",":","/","/">> \o r

C16_EveryLineCollected ==
    [][ ( /\ pc = "save"
          /\ Parsed[rx'].ascii
          /\ Parsed[rx'].line # OK )
        => collected' = Append(collected, Parsed[rx'].line)
      ]_vars

\* C17: SAVE is all-or-nothing.  The SAVE command itself sends only LIST and
\* writes nothing.  While the transfer collects, a step that does not read
\* the second OK leaves every stored program as it was, sends nothing,
\* dispatches nothing and stays in the transfer (or ends the engine on a
\* byte that is not ASCII); the transfer is left for the main loop only by
\* the step that reads the second OK, which is the one that writes the
\* program and sends 'File saved.  No step of the transfer passes without a
\* line being read: there is no timeout.
C17_SaveAllOrNothing ==
    [][ LET p == Parsed[rx']
            second == p.ascii /\ p.line = OK /\ ~first_ok
        IN  /\ (pc = "run" /\ pc' = "save")
               => /\ ijb' = ijb
                  /\ out' = <<LIST>>
            /\ (pc = "save" /\ ~second)
               => /\ ijb' = ijb
                  /\ out' = <<>>
                  /\ dispatched' = <<>>
                  /\ filename' = filename
                  /\ pc' \in {"save", "halted"}
                  /\ pc' = "halted" => ~p.ascii
            /\ (pc = "save" /\ second)
               => /\ dispatched' = <<>>
                  /\ pc' \in {"run", "halted"}
                  /\ pc' = "run" => out' = <<T_FileSaved>>
                  /\ \A k \in DOMAIN ijb \ {filename \o IJB} :
                        k \in DOMAIN ijb' /\ ijb'[k] = ijb[k]
      ]_vars

\* C17 witness: SAVE a has read OK, A and a command line, and is still
\* collecting: a.IJB does not exist, b.IJB is as it was and nothing was
\* sent.
C17_Witness ==
    /\ pc = "save"
    /\ filename = NameA
    /\ xfer = <<OK, TextA, cmd_line(<<V_DEL, NameB>>)>>
    /\ out = <<>>
    /\ DOMAIN ijb = {NameB \o IJB}
    /\ ijb[NameB \o IJB] = TextA

\* C18: LOAD replay and SAVE/LOAD round trip.  LOAD of a name whose program
\* was stored by a SAVE answered 'File saved, with the lines l1..ln
\* collected, sends l1..ln, each in a send of its own and in that order,
\* and then 'File loaded, and nothing else; LOAD of a name that is not
\* stored sends 'Error loading file and nothing else.  LOAD changes
\* nothing.
C18_LoadRoundTrip ==
    [][ ( /\ pc = "run"
          /\ dispatched' # <<>>
          /\ Parsed[rx'].command = V_LOAD
          /\ Len(Parsed[rx'].parts) >= 2 )
        => LET name == Parsed[rx'].parts[2] \o IJB
           IN  /\ pc' = "run"
               /\ UNCHANGED engine
               /\ name \in DOMAIN saved
                  => out' = saved[name] \o <<T_FileLoaded>>
               /\ name \notin DOMAIN ijb
                  => out' = <<T_ErrorLoading>>
      ]_vars

\* C18 witness: LOAD a replayed the two lines SAVE a collected, then 'File
\* loaded.
C18_Witness ==
    /\ pc = "run"
    /\ rx = cmd_line(<<V_LOAD, NameA>>)
    /\ (NameA \o IJB) \in DOMAIN saved
    /\ saved[NameA \o IJB] = <<TextA, cmd_line(<<V_DEL, NameB>>)>>
    /\ out = <<TextA, cmd_line(<<V_DEL, NameB>>), T_FileLoaded>>

\* C18 witness of the other case: LOAD a, no a.IJB being stored, sent the
\* failure text alone.
C18_WitnessAbsent ==
    /\ pc = "run"
    /\ rx = cmd_line(<<V_LOAD, NameA>>)
    /\ (NameA \o IJB) \notin DOMAIN ijb
    /\ out = <<T_ErrorLoading>>

\* What persistent bookmark storage holds: the dict of bookmarks.json, none
\* when the file is missing or unreadable.
stored_bookmarks ==
    IF bookmarks_json.ok THEN bookmarks_json.data ELSE [k \in {} |-> <<>>]

\* C19: bookmark read-after-write consistency.  From the end of startup on,
\* while the engine runs, the bookmark table equals what bookmarks.json
\* holds.  A BOOKMARK with a key that has the sigil, when it returns, has
\* rewritten bookmarks.json with the table of before and the new entry and
\* is answered 'Bookmark saved.  A step of the running engine that is not a
\* BOOKMARK command changes neither the table nor the file.
C19_BookmarkConsistency ==
    /\ [](pc \in {"run", "save"} => bookmarks = stored_bookmarks)
    /\ [][ LET p == Parsed[rx']
               bookmark == /\ pc = "run"
                           /\ dispatched' # <<>>
                           /\ p.command = V_BOOKMARK
           IN  /\ ( /\ bookmark
                    /\ Len(p.parts) >= 3
                    /\ startswith(p.parts[2], SIGIL)
                    /\ pc' = "run" )
                  => /\ out' = <<T_BookmarkSaved>>
                     /\ bookmarks_json'.ok
                     /\ DOMAIN bookmarks_json'.data
                           = DOMAIN bookmarks \cup {p.parts[2]}
                     /\ \A k \in DOMAIN bookmarks_json'.data :
                           bookmarks_json'.data[k]
                             = IF k = p.parts[2] THEN p.parts[3]
                               ELSE bookmarks[k]
               /\ (pc \in {"run", "save"} /\ ~bookmark)
                  => UNCHANGED <<bookmarks, bookmarks_json>>
       ]_vars

\* C19 witness: BOOKMARK **k httpv was answered 'Bookmark saved; table and
\* file both map **k to httpv.
C19_Witness ==
    /\ pc = "run"
    /\ rx = cmd_line(<<V_BOOKMARK, KeyK, UrlH>>)
    /\ out = <<T_BookmarkSaved>>
    /\ bookmarks = (KeyK :> UrlH)
    /\ bookmarks_json.ok
    /\ bookmarks_json.data = (KeyK :> UrlH)

\* C20: commands are not interleaved with a SAVE transfer.  A line is
\* dispatched only by a step of the main loop.  A step of the transfer
\* dispatches nothing and changes no session state, bookmark, bookmark or
\* wifi file, radio state or stored program other than the one being saved;
\* and a line with the marker read by the transfer before its end is
\* appended to the buffer as program content, with every stored program
\* left as it was and the transfer going on.
C20_NoInterleaving ==
    [][ LET p == Parsed[rx']
        IN  /\ dispatched' # <<>> => pc = "run"
            /\ pc = "save"
               => /\ dispatched' = <<>>
                  /\ net' = <<>>
                  /\ UNCHANGED <<state, bookmarks, bookmarks_json,
                                 wifi_json, isconnected, wlan_ssid>>
                  /\ \A k \in DOMAIN ijb \ {filename \o IJB} :
                        k \in DOMAIN ijb' /\ ijb'[k] = ijb[k]
            /\ (pc = "save" /\ p.is_cmd)
               => /\ pc' = "save"
                  /\ collected' = Append(collected, p.line)
                  /\ ijb' = ijb
                  /\ out' = <<>>
      ]_vars

\* C20 witness: MJ DEL b arrived within SAVE a; the transfer has ended,
\* a.IJB holds the line and b.IJB is stored as before.
C20_Witness ==
    /\ pc = "run"
    /\ xfer = <<OK, cmd_line(<<V_DEL, NameB>>), OK>>
    /\ out = <<T_FileSaved>>
    /\ DOMAIN ijb = {NameA \o IJB, NameB \o IJB}
    /\ ijb[NameA \o IJB] = cmd_line(<<V_DEL, NameB>>)
    /\ ijb[NameB \o IJB] = TextA

============================================================================
